---- MODULE Spec2Model ----
(***************************************************************************)
(* Model of bitcoinlib/mnemonic.py: the BIP-0039 mnemonic codec            *)
(* (class Mnemonic).  Byte strings, bit strings and word-index lists are   *)
(* sequences of integers; a text string is a sequence of tokens, a token   *)
(* being a separator (SPACE, IDEOGRAPHIC_SPACE) or an atom that stands for *)
(* the characters of one word.  A method is an operator that yields the    *)
(* outcome of the call, [err, ret]; the steps of a method body are         *)
(* operators that take the values computed so far as parameters.           *)
(***************************************************************************)
EXTENDS Integers, Sequences, FiniteSets, TLC

(***************************************************************************)
(* Bounds of the checked instance.                                         *)
(***************************************************************************)
\* entropies start with 0..MaxZeroBytes zero bytes
MaxZeroBytes == 4
\* data of other than the entropy sizes has 0..MaxShortLen bytes
MaxShortLen == 9
\* hand-written sentences have 1..MaxWords words
MaxWords == 3
\* number of words the english and the french wordlist have in common
Overlap == 2

(***************************************************************************)
(* hashlib.sha256: FIPS 180-4 on byte sequences.  A 32-bit word is a pair  *)
(* <<high 16 bits, low 16 bits>>.                                          *)
(***************************************************************************)
RECURSIVE XorBits(_, _)
XorBits(a, b) == IF a = 0 THEN b ELSE IF b = 0 THEN a
                 ELSE 2 * XorBits(a \div 2, b \div 2) + ((a + b) % 2)
RECURSIVE AndBits(_, _)
AndBits(a, b) == IF a = 0 \/ b = 0 THEN 0
                 ELSE 2 * AndBits(a \div 2, b \div 2) + ((a % 2) * (b % 2))
\* bytewise tables of the two operations, entry 256 * a + b + 1
Xor8 == [i \in 1..65536 |-> XorBits((i - 1) \div 256, (i - 1) % 256)] \o <<>>
And8 == [i \in 1..65536 |-> AndBits((i - 1) \div 256, (i - 1) % 256)] \o <<>>
Xor(a, b) == 256 * Xor8[256 * (a \div 256) + (b \div 256) + 1]
             + Xor8[256 * (a % 256) + (b % 256) + 1]
And(a, b) == 256 * And8[256 * (a \div 256) + (b \div 256) + 1]
             + And8[256 * (a % 256) + (b % 256) + 1]
WXor(x, y) == <<Xor(x[1], y[1]), Xor(x[2], y[2])>>
WAnd(x, y) == <<And(x[1], y[1]), And(x[2], y[2])>>
WNot(x) == <<65535 - x[1], 65535 - x[2]>>
\* rotate right by n < 16 bits
Rotr16(x, n) == <<(x[1] \div 2^n) + (x[2] % 2^n) * 2^(16 - n),
                  (x[2] \div 2^n) + (x[1] % 2^n) * 2^(16 - n)>>
Rotr(x, n) == IF n >= 16 THEN Rotr16(<<x[2], x[1]>>, n - 16) ELSE Rotr16(x, n)
Shr(x, n) == <<x[1] \div 2^n, (x[2] \div 2^n) + (x[1] % 2^n) * 2^(16 - n)>>
Carry(hi, lo) == <<(hi + (lo \div 65536)) % 65536, lo % 65536>>
Add(x, y) == Carry(x[1] + y[1], x[2] + y[2])
Ch(e, f, g) == WXor(WAnd(e, f), WAnd(WNot(e), g))
Maj(a, b, c) == WXor(WXor(WAnd(a, b), WAnd(a, c)), WAnd(b, c))
BigSigma0(x) == WXor(WXor(Rotr(x, 2), Rotr(x, 13)), Rotr(x, 22))
BigSigma1(x) == WXor(WXor(Rotr(x, 6), Rotr(x, 11)), Rotr(x, 25))
SmallSigma0(x) == WXor(WXor(Rotr(x, 7), Rotr(x, 18)), Shr(x, 3))
SmallSigma1(x) == WXor(WXor(Rotr(x, 17), Rotr(x, 19)), Shr(x, 10))
ShaK == <<
    <<17034, 12184>>, <<28983, 17553>>, <<46528, 64463>>, <<59829, 56229>>,
    <<14678, 49755>>, <<23025, 4593>>, <<37439, 33444>>, <<43804, 24277>>,
    <<55303, 43672>>, <<4739, 23297>>, <<9265, 34238>>, <<21772, 32195>>,
    <<29374, 23924>>, <<32990, 45566>>, <<39900, 1703>>, <<49563, 61812>>,
    <<58523, 27073>>, <<61374, 18310>>, <<4033, 40390>>, <<9228, 41420>>,
    <<11753, 11375>>, <<19060, 33962>>, <<23728, 43484>>, <<30457, 35034>>,
    <<38974, 20818>>, <<43057, 50797>>, <<45059, 10184>>, <<48985, 32711>>,
    <<50912, 3059>>, <<54695, 37191>>, <<1738, 25425>>, <<5161, 10599>>,
    <<10167, 2693>>, <<11803, 8504>>, <<19756, 28156>>, <<21304, 3347>>,
    <<25866, 29524>>, <<30314, 2747>>, <<33218, 51502>>, <<37490, 11397>>,
    <<41663, 59553>>, <<43034, 26187>>, <<49739, 35696>>, <<51052, 20899>>,
    <<53650, 59417>>, <<54937, 1572>>, <<62478, 13701>>, <<4202, 41072>>,
    <<6564, 49430>>, <<7735, 27656>>, <<10056, 30540>>, <<13488, 48309>>,
    <<14620, 3251>>, <<20184, 43594>>, <<23452, 51791>>, <<26670, 28659>>,
    <<29839, 33518>>, <<30885, 25455>>, <<33992, 30740>>, <<36039, 520>>,
    <<37054, 65530>>, <<42064, 27883>>, <<48889, 41975>>, <<50801, 30962>>>>
ShaH0 == <<
    <<27145, 58983>>, <<47975, 44677>>, <<15470, 62322>>, <<42319, 62778>>,
    <<20750, 21119>>, <<39685, 26764>>, <<8067, 55723>>, <<23520, 52505>>>>
Zeros(n) == [i \in 1..n |-> 0]
\* message padding: 0x80, zero fill to 56 mod 64, 64-bit big-endian bit length
ShaPad(data) ==
    data \o <<128>> \o Zeros((55 - Len(data)) % 64)
         \o <<0, 0, 0, 0, 0, 0, (8 * Len(data)) \div 256, (8 * Len(data)) % 256>>
RECURSIVE ShaSchedule(_)
ShaSchedule(w) ==
    IF Len(w) >= 64 THEN w
    ELSE ShaSchedule(Append(w, Add(Add(SmallSigma1(w[Len(w) - 1]), w[Len(w) - 6]),
                                   Add(SmallSigma0(w[Len(w) - 14]), w[Len(w) - 15]))))
\* one round: the working variables a..h from s and the two temporaries
ShaRound(s, t1, t2) ==
    <<Add(t1, t2), s[1], s[2], s[3], Add(s[4], t1), s[5], s[6], s[7]>>
RECURSIVE ShaRounds(_, _, _)
ShaRounds(s, w, t) ==
    IF t > 64 \/ Len(s) # 8 THEN s
    ELSE ShaRounds(ShaRound(s,
                            Add(Add(Add(s[8], BigSigma1(s[5])),
                                    Add(Ch(s[5], s[6], s[7]), ShaK[t])), w[t]),
                            Add(BigSigma0(s[1]), Maj(s[1], s[2], s[3]))),
                   w, t + 1)
ShaAdd(h, r) == [i \in 1..8 |-> Add(h[i], r[i])] \o <<>>
\* the sixteen big-endian 32-bit words of the first 64 bytes of m
ShaWords(m) == [i \in 1..16 |-> <<m[4 * i - 3] * 256 + m[4 * i - 2],
                                  m[4 * i - 1] * 256 + m[4 * i]>>] \o <<>>
RECURSIVE ShaBlocks(_, _)
ShaBlocks(h, m) ==
    IF m = <<>> THEN h
    ELSE ShaBlocks(ShaAdd(h, ShaRounds(h, ShaSchedule(ShaWords(m)), 1)),
                   SubSeq(m, 65, Len(m)))
\* the eight hash words as 32 bytes
ShaDigest(h) ==
    [i \in 1..32 |-> IF (i - 1) % 4 = 0 THEN h[(i + 3) \div 4][1] \div 256
                     ELSE IF (i - 1) % 4 = 1 THEN h[(i + 3) \div 4][1] % 256
                     ELSE IF (i - 1) % 4 = 2 THEN h[(i + 3) \div 4][2] \div 256
                     ELSE h[(i + 3) \div 4][2] % 256] \o <<>>
\* hashlib.sha256(data).digest()
sha256(data) == ShaDigest(ShaBlocks(ShaH0, ShaPad(data)))

(***************************************************************************)
(* bitcoinlib.encoding.change_base for the bases the codec uses (2, 256,   *)
(* 2048): the digit sequence chars is read as one big number in base_from  *)
(* and written most significant digit first in base_to, without leading    *)
(* zero digits, then left-padded with zero digits to min_length.           *)
(***************************************************************************)
DigitBits(base) == IF base = 2 THEN 1 ELSE IF base = 256 THEN 8 ELSE 11
RECURSIVE BitsToNat(_)
BitsToNat(bits) ==
    IF bits = <<>> THEN 0
    ELSE 2 * BitsToNat(SubSeq(bits, 1, Len(bits) - 1)) + bits[Len(bits)]
\* the digits of chars, w bits each, as one bit string
DigitsToBits(chars, w) ==
    [i \in 1..(Len(chars) * w) |->
        (chars[((i - 1) \div w) + 1] \div 2^(w - 1 - ((i - 1) % w))) % 2] \o <<>>
StripLeadingZeros(bits) ==
    IF \A i \in 1..Len(bits) : bits[i] = 0 THEN <<>>
    ELSE SubSeq(bits, CHOOSE i \in 1..Len(bits) :
                          bits[i] = 1 /\ \A j \in 1..(i - 1) : bits[j] = 0,
                Len(bits))
\* the k-th group of w bits from the right, the leftmost group may be shorter
BitGroup(bits, w, k) ==
    SubSeq(bits, IF Len(bits) - k * w + 1 < 1 THEN 1 ELSE Len(bits) - k * w + 1,
           Len(bits) - (k - 1) * w)
\* a bit string without leading zeros as digits of w bits
BitsToDigits(bits, w) ==
    [j \in 1..((Len(bits) + w - 1) \div w) |->
        BitsToNat(BitGroup(bits, w, ((Len(bits) + w - 1) \div w) - j + 1))] \o <<>>
PadLeft(out, min_length) == Zeros(min_length - Len(out)) \o out
change_base(chars, base_from, base_to, min_length) ==
    PadLeft(BitsToDigits(StripLeadingZeros(DigitsToBits(chars, DigitBits(base_from))),
                         DigitBits(base_to)),
            min_length)

(***************************************************************************)
(* Outcome of a call: the value returned, or the error raised.             *)
(***************************************************************************)
None == <<-9>>
Return(v) == [err |-> "none", ret |-> v]
Raise(e) == [err |-> e, ret |-> None]

\* Python's s[:j] and s[j:] for j <= 0
SliceTo(s, j) == SubSeq(s, 1, IF j < 0 THEN Len(s) + j ELSE j)
SliceFrom(s, j) == SubSeq(s, (IF j < 0 THEN Len(s) + j ELSE j) + 1, Len(s))

\* faulty variant of checksum: the hash bits are not padded to 256 bits
checksum_unpadded(data) ==
    IF Len(data) % 4 > 0 THEN Raise("InvalidLength")
    ELSE Return(SubSeq(change_base(sha256(data), 256, 2, 0), 1, (Len(data) * 8) \div 32))
\* Mnemonic.checksum
checksum(data) ==
    IF Len(data) % 4 > 0 THEN Raise("InvalidLength")
    ELSE Return(SubSeq(change_base(sha256(data), 256, 2, 256), 1, (Len(data) * 8) \div 32))

(***************************************************************************)
(* Text.  ' ' is SPACE; U+3000, which the japanese sentences use between   *)
(* words, is IDEOGRAPHIC_SPACE; every other token is a word atom >= 0.     *)
(***************************************************************************)
SPACE == -1
IDEOGRAPHIC_SPACE == -2
\* bitcoinlib.encoding.normalize_string: NFKD maps U+3000 to U+0020
normalize_string(s) ==
    [i \in 1..Len(s) |-> IF s[i] = IDEOGRAPHIC_SPACE THEN SPACE ELSE s[i]] \o <<>>
\* str.split(' ')
RECURSIVE split(_)
split(s) ==
    IF \A i \in 1..Len(s) : s[i] # SPACE THEN <<s>>
    ELSE <<SubSeq(s, 1, (CHOOSE i \in 1..Len(s) :
                             s[i] = SPACE /\ \A j \in 1..(i - 1) : s[j] # SPACE) - 1)>>
         \o split(SubSeq(s, (CHOOSE i \in 1..Len(s) :
                                 s[i] = SPACE /\ \A j \in 1..(i - 1) : s[j] # SPACE) + 1,
                         Len(s)))
\* sep.join(words)
RECURSIVE join(_, _)
join(sep, words) ==
    IF Len(words) = 0 THEN <<>>
    ELSE IF Len(words) = 1 THEN words[1]
    ELSE words[1] \o <<sep>> \o join(sep, Tail(words))

(***************************************************************************)
(* The wordlist files: per language 2048 unique words, word number i of a  *)
(* language being the one-atom string <<WordBase(language) + i>>.  The     *)
(* last Overlap english words are the first Overlap french words.          *)
(***************************************************************************)
DEFAULT_LANGUAGE == "english"
Languages == {"english", "french", "spanish"}
WordlistSize == 2048
WordBase(language) ==
    CASE language = "english" -> 0
      [] language = "french"  -> WordlistSize - Overlap
      [] language = "spanish" -> 2 * WordlistSize
\* [w.strip() for w in f.readlines()]: element i + 1 is wordlist[i]
wordlist(language) == [i \in 1..WordlistSize |-> <<WordBase(language) + i - 1>>]
\* word in wordlist
InWordlist(word, language) ==
    /\ Len(word) = 1
    /\ word[1] - WordBase(language) \in 0..(WordlistSize - 1)
\* wordlist.index(word), for a word of the wordlist
index(language, word) == word[1] - WordBase(language)

\* wlcount[language] for the words ws
wlcount(ws, language) == Cardinality({i \in 1..Len(ws) : InWordlist(ws[i], language)})
\* faulty variant of detect_words: any language with a matching word will do
detect_words_any(ws) ==
    IF \A l \in Languages : wlcount(ws, l) = 0
    THEN {Raise("UnknownLanguage")}
    ELSE {Return(detlang) : detlang \in {l \in Languages : wlcount(ws, l) > 0}}
\* faulty variant of detect_words: a language must match every word
detect_words_all(ws) ==
    IF \A l \in Languages : wlcount(ws, l) < Len(ws)
    THEN {Raise("UnknownLanguage")}
    ELSE {Return(detlang) : detlang \in {l \in Languages : wlcount(ws, l) = Len(ws)}}
detect_words(ws) ==
    IF \A l \in Languages : wlcount(ws, l) = 0
    THEN {Raise("UnknownLanguage")}
    ELSE {Return(detlang) :
             detlang \in {l \in Languages :
                             \A m \in Languages : wlcount(ws, m) <= wlcount(ws, l)}}
\* Mnemonic.detect_language: the outcomes of the call.  max() returns the first
\* language with the highest count in the order of os.listdir, which is any order.
detect_language(words) == detect_words(split(normalize_string(words)))

\* faulty variant of sanitize_words: only the first word is looked up
sanitize_words_first(ws, det) ==
    IF det.err # "none" THEN Raise(det.err)
    ELSE IF ~InWordlist(ws[1], det.ret)
    THEN Raise("UnrecognizedWord")
    ELSE Return(join(SPACE, ws))
sanitize_words(ws, det) ==
    IF det.err # "none" THEN Raise(det.err)
    ELSE IF \E i \in 1..Len(ws) : ~InWordlist(ws[i], det.ret)
    THEN Raise("UnrecognizedWord")
    ELSE Return(join(SPACE, ws))
\* Mnemonic.sanitize_mnemonic, det being the outcome of its detect_language call
sanitize_mnemonic(words, det) == sanitize_words(split(normalize_string(words)), det)

\* the sentence of the words with the indexes wi
mnemonic_words(language, wi) ==
    Return(normalize_string(
        join(SPACE, [i \in 1..Len(wi) |-> wordlist(language)[wi[i] + 1]])))
\* add_checksum: cs is the outcome of self.checksum(data)
to_mnemonic_checksum(language, data, cs) ==
    IF cs.err # "none" THEN cs
    ELSE mnemonic_words(language,
             change_base(change_base(data, 256, 2, Len(data) * 8) \o cs.ret, 2, 2048, 0))
\* Mnemonic.to_mnemonic of the instance whose wordlist is wordlist(language)
to_mnemonic(language, data, add_checksum) ==
    IF add_checksum THEN to_mnemonic_checksum(language, data, checksum(data))
    ELSE mnemonic_words(language, change_base(data, 256, 2048, 0))

\* faulty variant of to_entropy_check: only the lengths of the checksums are compared
to_entropy_check_length(ent, cs, chk) ==
    IF chk.err # "none" THEN chk
    ELSE IF Len(cs) # Len(chk.ret) THEN Raise("InvalidChecksum")
    ELSE Return(ent)
\* faulty variant of to_entropy_check: the mismatch is not raised
to_entropy_check_ignored(ent, cs, chk) ==
    IF chk.err # "none" THEN chk
    ELSE Return(ent)
\* the checksum check: chk is the outcome of self.checksum(ent)
to_entropy_check(ent, cs, chk) ==
    IF chk.err # "none" THEN chk
    ELSE IF cs # chk.ret THEN Raise("InvalidChecksum")
    ELSE Return(ent)
\* the split of binresult into entropy and checksum
to_entropy_split(ent, cs) == to_entropy_check(ent, cs, checksum(ent))
to_entropy_bits(binresult) ==
    to_entropy_split(change_base(SliceTo(binresult, (-Len(binresult)) \div 33), 2, 256, 0),
                     SliceFrom(binresult, (-Len(binresult)) \div 33))
to_entropy_ent(ent, includes_checksum) ==
    IF includes_checksum THEN to_entropy_bits(change_base(ent, 256, 2, Len(ent) * 4))
    ELSE Return(ent)
\* the lookup of the words in self._wordlist
to_entropy_words(language, ws, includes_checksum) ==
    IF \E i \in 1..Len(ws) : ~InWordlist(ws[i], language) THEN Raise("WordNotFound")
    ELSE to_entropy_ent(change_base([i \in 1..Len(ws) |-> index(language, ws[i])],
                                    2048, 256, 0),
                        includes_checksum)
to_entropy_sanitized(language, san, includes_checksum) ==
    IF san.err # "none" THEN san
    ELSE to_entropy_words(language, split(san.ret), includes_checksum)
\* Mnemonic.to_entropy of the instance whose wordlist is wordlist(language),
\* det being the outcome of the detect_language call in sanitize_mnemonic
to_entropy(language, words, includes_checksum, det) ==
    to_entropy_sanitized(language, sanitize_mnemonic(words, det), includes_checksum)

(***************************************************************************)
(* Inputs of the calls.                                                    *)
(***************************************************************************)
\* BIP39 entropy sizes in bytes: 128, 160, 192, 224 and 256 bits
EntropyLengths == {16, 20, 24, 28, 32}
\* 0x00, 0x7f (the example key 7f7f...7f) and 0xff
FillBytes == {0, 127, 255}
\* n bytes: z zero bytes, then the byte b repeated
Entropy(n, z, b) == Zeros(z) \o [i \in 1..(n - z) |-> b]
Entropies ==
    {Entropy(n, z, b) : n \in EntropyLengths, z \in 0..MaxZeroBytes, b \in FillBytes}
\* data of other lengths, multiples of 4 bytes or not
ShortData == {Entropy(n, 0, b) : n \in 0..MaxShortLen, b \in FillBytes}
\* a word that is in no wordlist
UnknownWord == <<3 * WordlistSize>>
Vocabulary ==
    { <<>>,
      wordlist("english")[1],
      wordlist("english")[WordlistSize],
      wordlist("french")[WordlistSize],
      wordlist("spanish")[6],
      UnknownWord }
Sentences ==
    {join(sep, ws) : sep \in {SPACE, IDEOGRAPHIC_SPACE},
                     ws \in UNION {[1..n -> Vocabulary] : n \in 1..MaxWords}}
\* the index i with the bit of weight b flipped
FlipBit(i, b) == IF (i \div b) % 2 = 1 THEN i - b ELSE i + b
\* the words ws with bit p (1 = most significant of 11) of the last word's index flipped
FlipLastIndex(language, ws, p) ==
    [ws EXCEPT ![Len(ws)] =
        wordlist(language)[FlipBit(index(language, ws[Len(ws)]), 2^(11 - p)) + 1]]
FlipLastWord(language, sentence, p) ==
    join(SPACE, FlipLastIndex(language, split(sentence), p))
LastWord(sentence) == split(sentence)[Len(split(sentence))]

(***************************************************************************)
(* State: a Mnemonic instance and the last call made on it.                *)
(***************************************************************************)
VARIABLES
    language,   \* the language whose wordlist __init__ read into self._wordlist
    pc,         \* "ready": constructed; "called": one call made;
                \* "decoded": to_entropy applied to the sentence to_mnemonic returned
    op,         \* the method called last
    data,       \* the bytes given to checksum or to_mnemonic
    words,      \* the sentence given to detect_language, sanitize_mnemonic or to_entropy
    flag,       \* add_checksum or includes_checksum
    flip,       \* the bit of the last word flipped before decoding, 0 for none
    detlang,    \* the language detect_language returned, "" if it returned none
    ret,        \* the value returned, None if the call raised
    err         \* the error raised, "none" if the call returned
vars == <<language, pc, op, data, words, flag, flip, detlang, ret, err>>

Constructed ==
    /\ pc = "ready"
    /\ op = "__init__"
    /\ data = <<>>
    /\ words = <<>>
    /\ flag = TRUE
    /\ flip = 0
    /\ detlang = ""
    /\ ret = None
    /\ err = "none"
\* Mnemonic(): the default language
Init == language = DEFAULT_LANGUAGE /\ Constructed
\* Mnemonic(language)
InitLanguage == language \in Languages /\ Constructed

\* the outcome r of the call
Outcome(r) == ret' = r.ret /\ err' = r.err
\* the outcome det of a detect_language call
Detected(det) == detlang' = IF det.err = "none" THEN det.ret ELSE ""

Checksum ==
    /\ pc = "ready"
    /\ \E d \in Entropies \cup ShortData :
          /\ data' = d
          /\ Outcome(checksum(d))
    /\ pc' = "called"
    /\ op' = "checksum"
    /\ UNCHANGED <<language, words, flag, flip, detlang>>

ToMnemonic ==
    /\ pc = "ready"
    /\ \E d \in Entropies \cup ShortData, add_checksum \in BOOLEAN :
          /\ data' = d
          /\ flag' = add_checksum
          /\ Outcome(to_mnemonic(language, d, add_checksum))
    /\ pc' = "called"
    /\ op' = "to_mnemonic"
    /\ UNCHANGED <<language, words, flip, detlang>>

DetectLanguage ==
    /\ pc = "ready"
    /\ \E s \in Sentences :
          \E r \in detect_language(s) :
              /\ words' = s
              /\ Detected(r)
              /\ err' = r.err
    /\ pc' = "called"
    /\ op' = "detect_language"
    /\ UNCHANGED <<language, data, flag, flip, ret>>

SanitizeMnemonic ==
    /\ pc = "ready"
    /\ \E s \in Sentences :
          \E det \in detect_language(normalize_string(s)) :
              /\ words' = s
              /\ Detected(det)
              /\ Outcome(sanitize_mnemonic(s, det))
    /\ pc' = "called"
    /\ op' = "sanitize_mnemonic"
    /\ UNCHANGED <<language, data, flag, flip>>

\* one call of to_entropy on the sentence s
CallToEntropy(s, includes_checksum) ==
    \E det \in detect_language(normalize_string(s)) :
        /\ words' = s
        /\ flag' = includes_checksum
        /\ Detected(det)
        /\ Outcome(to_entropy(language, s, includes_checksum, det))
        /\ op' = "to_entropy"

ToEntropy ==
    /\ pc = "ready"
    /\ \E s \in Sentences, includes_checksum \in BOOLEAN :
          CallToEntropy(s, includes_checksum)
    /\ pc' = "called"
    /\ UNCHANGED <<language, data, flip>>

\* to_entropy on the sentence to_mnemonic returned, as it is (p = 0) or
\* with one bit of its last word flipped
Decode ==
    /\ pc = "called"
    /\ op = "to_mnemonic"
    /\ err = "none"
    /\ \E p \in 0..11 :
          /\ p > 0 => flag /\ InWordlist(LastWord(ret), language)
          /\ flip' = p
          /\ CallToEntropy(IF p = 0 THEN ret ELSE FlipLastWord(language, ret, p), flag)
    /\ pc' = "decoded"
    /\ UNCHANGED <<language, data>>

\* the codec of an instance of the default language
Next ==
    \/ Checksum
    \/ ToMnemonic
    \/ Decode
Spec == Init /\ [][Next]_vars

\* language detection, sanitization and decoding in an instance of any language
NextLanguage ==
    \/ DetectLanguage
    \/ SanitizeMnemonic
    \/ ToEntropy
SpecLanguage == InitLanguage /\ [][NextLanguage]_vars

(***************************************************************************)
(* Properties of the codec, checked under Spec.                            *)
(***************************************************************************)
\* the words of the sentence given to the last call
GivenWords == split(normalize_string(words))
\* every word of the sentence is in the wordlist of the instance
AllInWordlist == \A i \in 1..Len(GivenWords) : InWordlist(GivenWords[i], language)
\* the entropy and the checksum that to_entropy separates from the sentence
DecodedBits ==
    change_base(change_base([i \in 1..Len(GivenWords) |-> index(language, GivenWords[i])],
                            2048, 256, 0),
                256, 2,
                4 * Len(change_base([i \in 1..Len(GivenWords) |->
                                        index(language, GivenWords[i])], 2048, 256, 0)))
DecodedEntropy ==
    change_base(SliceTo(DecodedBits, (-Len(DecodedBits)) \div 33), 2, 256, 0)
DecodedChecksum == SliceFrom(DecodedBits, (-Len(DecodedBits)) \div 33)
\* the number of checksum bits of the data: one per 32 bits
ChecksumBits == (Len(data) * 8) \div 32

\* C1: for every entropy E of 16, 20, 24, 28 or 32 bytes, those that start
\* with zero bytes included, to_entropy(to_mnemonic(E)) returns exactly E.
C1_RoundTrip ==
    (pc = "decoded" /\ flip = 0 /\ flag /\ Len(data) \in EntropyLengths)
    => (err = "none" /\ ret = data)

\* C2: to_entropy never returns an entropy when the checksum bits it takes
\* from the sentence differ from checksum(entropy it takes from the
\* sentence); it raises InvalidChecksum.
C2_ChecksumMismatchRaises ==
    (op = "to_entropy" /\ flag /\ AllInWordlist
        /\ checksum(DecodedEntropy).err = "none"
        /\ DecodedChecksum # checksum(DecodedEntropy).ret)
    => (err = "InvalidChecksum" /\ ret = None)
\* a sentence with a flipped bit was decoded and rejected for its checksum
C2_Witness ==
    /\ pc = "decoded"
    /\ flip > 0
    /\ Len(GivenWords) = 12
    /\ err = "InvalidChecksum"
    /\ ret = None

\* C3, for the entropies that do not start with a zero byte: flipping any
\* one of the 11 bits of the last word of the sentence to_mnemonic returned
\* for E makes to_entropy raise InvalidChecksum.
C3_AnyBitFlipRejected ==
    (pc = "decoded" /\ flip > 0 /\ Len(data) \in EntropyLengths /\ data[1] # 0)
    => err = "InvalidChecksum"
\* C3, amended: the last len(E) * 8 / 32 bits of the last word are the
\* checksum; flipping any one of them never makes to_entropy return E, and
\* makes it raise InvalidChecksum if E does not start with a zero byte.
C3_ChecksumBitFlipRejected ==
    (pc = "decoded" /\ flip > 11 - ChecksumBits /\ Len(data) \in EntropyLengths)
    => /\ ret # data
       /\ data[1] # 0 => (err = "InvalidChecksum" /\ ret = None)
\* the least significant bit of the last word of a 12-word sentence was flipped
C3_Witness ==
    /\ pc = "decoded"
    /\ flip = 11
    /\ Len(data) = 16
    /\ data[1] # 0
    /\ err = "InvalidChecksum"

\* C4: checksum raises InvalidLength if the length of the data is not a
\* multiple of 4 bytes; otherwise it returns the first len(data) * 8 / 32
\* bits of the SHA-256 hash of the data written as 256 bits, leading zero
\* bits included.
C4_Checksum ==
    (pc = "called" /\ op = "checksum")
    => IF Len(data) % 4 # 0
       THEN err = "InvalidLength" /\ ret = None
       ELSE /\ err = "none"
            /\ Len(ret) = ChecksumBits
            /\ ret = SubSeq(DigitsToBits(sha256(data), 8), 1, ChecksumBits)
\* a checksum of four bits was returned for a hash whose first bit is 0
C4_Witness ==
    /\ pc = "called"
    /\ op = "checksum"
    /\ err = "none"
    /\ Len(ret) = 4
    /\ sha256(data)[1] < 128
    /\ ret[1] = 0

\* C5: for an entropy E of 16, 20, 24, 28 or 32 bytes to_mnemonic returns
\* exactly (len(E) * 8 + len(E) * 8 / 32) / 11 words, one for every group of
\* 11 bits of the entropy bits followed by the checksum bits, the leading
\* groups that are zero included.
C5_WordPerGroup ==
    (pc = "called" /\ op = "to_mnemonic" /\ flag /\ Len(data) \in EntropyLengths)
    => /\ err = "none"
       /\ Len(split(ret)) = (Len(data) * 8 + ChecksumBits) \div 11
       /\ \A i \in 1..Len(split(ret)) :
             split(ret)[i] =
                 wordlist(language)[
                     BitsToNat(SubSeq(DigitsToBits(data, 8) \o checksum(data).ret,
                                      11 * i - 10, 11 * i)) + 1]

\* C10: to_entropy raises InvalidLength for every sentence that passes
\* sanitize_mnemonic and whose number of words is not 12, 15, 18, 21 or 24.
C10_WordCountChecked ==
    (op = "to_entropy" /\ flag /\ AllInWordlist
        /\ Len(GivenWords) \notin {12, 15, 18, 21, 24})
    => (err = "InvalidLength" /\ ret = None)

(***************************************************************************)
(* Properties of language detection and sanitization, checked under        *)
(* SpecLanguage.                                                           *)
(***************************************************************************)
\* the number of words of the sentence, repetitions counted, that are in
\* the wordlist of the language l
Matches(l) == Cardinality({i \in 1..Len(GivenWords) : InWordlist(GivenWords[i], l)})
\* some word of the sentence is in no wordlist
SomeWordUnknown ==
    \E i \in 1..Len(GivenWords) : \A l \in Languages : ~InWordlist(GivenWords[i], l)

\* C6: sanitize_mnemonic returns if and only if every word of the normalized
\* sentence is in the wordlist of the language detect_language returns for
\* the sentence, and what it returns is those words joined by single spaces.
C6_Sanitized ==
    (pc = "called" /\ op = "sanitize_mnemonic")
    => /\ err = "none"
          <=> /\ detlang \in Languages
              /\ \A i \in 1..Len(GivenWords) : InWordlist(GivenWords[i], detlang)
       /\ err = "none"
          => /\ ret = join(SPACE, GivenWords)
             /\ \A r \in detect_language(words) :
                   /\ r.err = "none"
                   /\ \A i \in 1..Len(GivenWords) : InWordlist(GivenWords[i], r.ret)
       /\ err # "none" => ret = None
\* a sentence of several words written with ideographic spaces was sanitized
C6_Witness ==
    /\ pc = "called"
    /\ op = "sanitize_mnemonic"
    /\ err = "none"
    /\ Len(GivenWords) > 1
    /\ ret # words
    /\ ret = join(SPACE, GivenWords)

\* C7: sanitize_mnemonic raises UnrecognizedWord, not UnknownLanguage, for
\* every sentence with a word that is in no wordlist, also when no other
\* word of the sentence is in a wordlist.
C7_UnrecognizedWord ==
    (pc = "called" /\ op = "sanitize_mnemonic" /\ SomeWordUnknown)
    => err = "UnrecognizedWord"
\* C7, amended: for a sentence with a word that is in no wordlist
\* sanitize_mnemonic raises UnrecognizedWord if some other word of the
\* sentence is in a wordlist, and UnknownLanguage if none is.
C7_UnrecognizedOrUnknown ==
    (pc = "called" /\ op = "sanitize_mnemonic" /\ SomeWordUnknown)
    => /\ ret = None
       /\ err = IF \E l \in Languages : Matches(l) > 0
                THEN "UnrecognizedWord" ELSE "UnknownLanguage"
\* a sentence of a word of a wordlist and a word of no wordlist was rejected
C7_Witness ==
    /\ pc = "called"
    /\ op = "sanitize_mnemonic"
    /\ SomeWordUnknown
    /\ \E i \in 1..Len(GivenWords) : GivenWords[i] = UnknownWord
    /\ detlang \in Languages
    /\ err = "UnrecognizedWord"

\* C8: detect_language returns a language whose wordlist has the most words
\* of the sentence, repetitions counted, and raises UnknownLanguage exactly
\* when no word of the sentence is in any wordlist.
C8_MostMatches ==
    (pc = "called" /\ op = "detect_language")
    => /\ err \in {"none", "UnknownLanguage"}
       /\ err = "UnknownLanguage" <=> \A l \in Languages : Matches(l) = 0
       /\ err = "UnknownLanguage" => detlang = ""
       /\ err = "none"
          => /\ detlang \in Languages
             /\ \A l \in Languages : Matches(l) <= Matches(detlang)
\* the language returned has more matches than another language that has some
C8_Witness ==
    /\ pc = "called"
    /\ op = "detect_language"
    /\ err = "none"
    /\ detlang \in Languages
    /\ \E l \in Languages : 0 < Matches(l) /\ Matches(l) < Matches(detlang)

\* C9: in an instance of any language, for every sentence that passes
\* sanitize_mnemonic, to_entropy finds the index of every word: the lookup
\* in the wordlist never fails.
C9_LookupNeverFails ==
    (pc = "called" /\ op = "to_entropy") => err # "WordNotFound"
====
